---- MODULE Spec2Model ----
(***************************************************************************)
(* The interactive file-selection session of amalgamation-rs               *)
(* (src/src/interactive.rs): run_interactive_mode, the run_app event loop  *)
(* and the FileTreeNode tree with its traversals.                          *)
(*                                                                         *)
(* A FileTreeNode tree is kept as an arena: the nodes are numbered         *)
(* 1..n, node Root is the repository root, and each field of the struct    *)
(* is a function from node to value.  A node's number also stands for      *)
(* its path: paths compare as their numbers do.                            *)
(***************************************************************************)
EXTENDS Integers, Sequences, FiniteSets, TLC

\* The largest number of filesystem entries (root included) of an
\* extracted repository.
MaxNodes == 4

\* The largest length of a repository URL, in characters.
MaxUrlLen == 6

Root == 1

VARIABLES
    pc,             \* position in run_interactive_mode
    raw_mode,       \* the terminal is in raw mode
    alt_screen,     \* the terminal shows the alternate screen
    fs,             \* the extracted repository on disk
    root,           \* run_app's root: FileTreeNode (the arena)
    state,          \* ListState.selected: <<>> is None, <<i>> is Some(i)
    focus_on_tree,  \* run_app's focus_on_tree
    app_exit,       \* the place run_app returned from
    result,         \* what run_app returned
    writer_calls,   \* the file lists write_files was called with
    ret,            \* what run_interactive_mode (or execute) returned
    url,            \* AmalgamationAction.url, a sequence of characters
    resolved,       \* the results of resolve_url, oldest first
    response,       \* what the GET of the archive came to
    binary,         \* the files on disk that are not valid UTF-8
    files,          \* write_files's files still to be visited
    output          \* what has been written to the output file

session_vars == <<pc, raw_mode, alt_screen, fs, root, state, focus_on_tree,
                  app_exit, result, writer_calls, ret>>

\* The state of resolve_url and of the non-interactive pipeline.
pipeline_vars == <<url, resolved, response, binary, files, output>>

vars == <<session_vars, pipeline_vars>>

term_vars == <<raw_mode, alt_screen>>
app_vars == <<root, state, focus_on_tree, app_exit, result, writer_calls>>

----------------------------------------------------------------------------
(* The extracted repository: entry 1 is the top-level directory, every     *)
(* other entry lies in a directory numbered before it (entries are         *)
(* numbered breadth-first, so parent is non-decreasing).                   *)

FileSystems ==
    UNION { { [n |-> n, parent |-> p, is_dir |-> d] :
                p \in { q \in [2..n -> 1..n] :
                          /\ \A k \in 2..n : q[k] < k
                          /\ \A k \in 2..(n-1) : q[k] <= q[k+1] },
                d \in { e \in [1..n -> BOOLEAN] : e[Root] } }
            : n \in 1..MaxNodes }

ValidFileSystems ==
    { f \in FileSystems : \A k \in 2..f.n : f.is_dir[f.parent[k]] }

\* fs::read_dir(path): the entries of a directory, in some order.
RECURSIVE SetToSeq(_)
SetToSeq(S) ==
    IF S = {} THEN <<>>
    ELSE LET x == CHOOSE y \in S : \A z \in S : y >= z
         IN  <<x>> \o SetToSeq(S \ {x})

read_dir(f, path) == SetToSeq({ k \in 2..f.n : f.parent[k] = path })

\* The sort key (node.is_dir, node.path) compared as a tuple, false < true.
sort_key_less(f, a, b) ==
    \/ ~f.is_dir[a] /\ f.is_dir[b]
    \/ f.is_dir[a] = f.is_dir[b] /\ a < b

\* FileTreeNode::new(path), for the whole tree at once.
FileTreeNode_new(f) ==
    [ is_dir      |-> f.is_dir,
      is_selected |-> [k \in 1..f.n |-> TRUE],
      is_expanded |-> [k \in 1..f.n |-> FALSE],
      children    |-> [k \in 1..f.n |->
                         IF f.is_dir[k]
                         THEN SortSeq(read_dir(f, k),
                                      LAMBDA a, b : sort_key_less(f, a, b))
                         ELSE <<>>] ]

\* No tree yet.
NoTree == [is_dir |-> <<>>, is_selected |-> <<>>, is_expanded |-> <<>>,
           children |-> <<>>]

Nodes(t) == DOMAIN t.is_dir

----------------------------------------------------------------------------
(* The traversals of the tree.  Each takes the tree t it works on, so      *)
(* that it can be applied to the result of another.                        *)

\* build_items's row: the formatted string "{prefix}{icon}{checkbox} {name}",
\* kept as its four parts (the name stands for the node it was made from).
ListItem(t, node, depth) ==
    [ prefix   |-> depth,
      icon     |-> IF t.is_dir[node]
                   THEN (IF t.is_expanded[node] THEN "v" ELSE ">")
                   ELSE " ",
      checkbox |-> t.is_selected[node],
      name     |-> node ]

\* A slip: the root's children are shown whatever its own flag.
build_descends_below_root(t, node) == node = Root \/ t.is_expanded[node]

\* build_items descends into the children of an expanded node.
build_descends(t, node) == t.is_expanded[node]

RECURSIVE build_items(_, _, _, _), build_children(_, _, _, _)
build_items(t, node, depth, items) ==
    LET pushed == Append(items, ListItem(t, node, depth))
    IN  IF build_descends(t, node)
        THEN build_children(t, t.children[node], depth + 1, pushed)
        ELSE pushed
build_children(t, kids, depth, items) ==
    IF kids = <<>> THEN items
    ELSE build_children(t, Tail(kids), depth,
                        build_items(t, Head(kids), depth, items))

create_tree_items(t) == build_items(t, Root, 0, <<>>)

\* A slip: children are counted whether or not their parent is expanded.
count_descends_always(t, node) == TRUE

\* count_visible_nodes counts the children of an expanded node.
count_descends(t, node) == t.is_expanded[node]

RECURSIVE count_visible_nodes(_, _), count_children(_, _)
count_visible_nodes(t, node) ==
    1 + (IF count_descends(t, node)
         THEN count_children(t, t.children[node])
         ELSE 0)
count_children(t, kids) ==
    IF kids = <<>> THEN 0
    ELSE count_visible_nodes(t, Head(kids)) + count_children(t, Tail(kids))

\* What a toggle_recursive call leaves behind: the tree, the running index,
\* its return value, and the node at which *index == 0 held (0: none).
Walk(t, index, found, hit) ==
    [root |-> t, index |-> index, found |-> found, hit |-> hit]

\* A slip: the is_dir test is forgotten.
expansion_at_any(t, node) ==
    [t EXCEPT !.is_expanded[node] = ~t.is_expanded[node]]

\* toggle_node_expansion's toggle_recursive, at the node where *index == 0.
expansion_at(t, node) ==
    IF t.is_dir[node]
    THEN [t EXCEPT !.is_expanded[node] = ~t.is_expanded[node]]
    ELSE t

expansion_descends(t, node) == t.is_expanded[node]

RECURSIVE expansion_recursive(_, _, _), expansion_children(_, _, _)
expansion_recursive(t, node, index) ==
    IF index = 0 THEN Walk(expansion_at(t, node), index, TRUE, node)
    ELSE IF expansion_descends(t, node)
         THEN expansion_children(t, t.children[node], index - 1)
         ELSE Walk(t, index - 1, FALSE, 0)
expansion_children(t, kids, index) ==
    IF kids = <<>> THEN Walk(t, index, FALSE, 0)
    ELSE LET r == expansion_recursive(t, Head(kids), index)
         IN  IF r.found THEN r
             ELSE expansion_children(r.root, Tail(kids), r.index)

toggle_node_expansion(t, index) == expansion_recursive(t, Root, index)

\* toggle_node_selection's propagation: every child of node gets node's
\* (new) is_selected.
RECURSIVE propagate_to_children(_, _, _)
propagate_to_children(t, node, kids) ==
    IF kids = <<>> THEN t
    ELSE propagate_to_children(
             [t EXCEPT !.is_selected[Head(kids)] = t.is_selected[node]],
             node, Tail(kids))

\* toggle_node_selection's toggle_recursive, at the node where *index == 0.
selection_at(t, node) ==
    LET flipped == [t EXCEPT !.is_selected[node] = ~t.is_selected[node]]
    IN  IF flipped.is_dir[node]
        THEN propagate_to_children(flipped, node, flipped.children[node])
        ELSE flipped

\* A slip: the walk enters collapsed directories too.
selection_descends_always(t, node) == TRUE

selection_descends(t, node) == t.is_expanded[node]

RECURSIVE selection_recursive(_, _, _), selection_children(_, _, _)
selection_recursive(t, node, index) ==
    IF index = 0 THEN Walk(selection_at(t, node), index, TRUE, node)
    ELSE IF selection_descends(t, node)
         THEN selection_children(t, t.children[node], index - 1)
         ELSE Walk(t, index - 1, FALSE, 0)
selection_children(t, kids, index) ==
    IF kids = <<>> THEN Walk(t, index, FALSE, 0)
    ELSE LET r == selection_recursive(t, Head(kids), index)
         IN  IF r.found THEN r
             ELSE selection_children(r.root, Tail(kids), r.index)

toggle_node_selection(t, index) == selection_recursive(t, Root, index)

\* A slip: the is_selected test is forgotten.
collects_all_files(t, node) == ~t.is_dir[node]

\* A slip: the is_dir test is forgotten.
collects_any_selected(t, node) == t.is_selected[node]

\* FileTreeNode::collect_selected_files: a file is pushed when selected, a
\* directory's children are collected whatever its flags.
collects(t, node) == ~t.is_dir[node] /\ t.is_selected[node]

RECURSIVE collect_selected_files(_, _), collect_children(_, _)
\* A slip: the children of an unselected directory are passed over.
collect_selected_files_pruned(t, node) ==
    LET selected == IF collects(t, node) THEN <<node>> ELSE <<>>
    IN  IF t.is_dir[node] /\ t.is_selected[node]
        THEN selected \o collect_children(t, t.children[node])
        ELSE selected
collect_selected_files(t, node) ==
    LET selected == IF collects(t, node) THEN <<node>> ELSE <<>>
    IN  IF t.is_dir[node]
        THEN selected \o collect_children(t, t.children[node])
        ELSE selected
collect_children(t, kids) ==
    IF kids = <<>> THEN <<>>
    ELSE collect_selected_files(t, Head(kids)) \o collect_children(t, Tail(kids))

\* A slip: the is_empty test is forgotten.
write_selected_files_always(t) == <<collect_selected_files(t, Root)>>

\* FileTreeNode::write_selected_files: the calls of write_files it makes
\* (none for an empty selection).
write_selected_files(t) ==
    LET selected_files == collect_selected_files(t, Root)
    IN  IF selected_files = <<>> THEN <<>> ELSE <<selected_files>>

----------------------------------------------------------------------------
(* run_interactive_mode, up to the event loop.  Every step that ends in    *)
(* `?` either succeeds or makes the function return its error at once.     *)

\* Nothing of resolve_url or execute has run.  (The interactive session
\* resolves and downloads too, but nothing in it depends on the URL, so the
\* session is modelled with these left alone.)
NoPipeline ==
    /\ url = <<>>
    /\ resolved = <<>>
    /\ response = "none"
    /\ binary = {}
    /\ files = <<>>
    /\ output = <<>>

\* No interactive session: no terminal mode set, no tree, no loop.
NoSession ==
    /\ raw_mode = FALSE
    /\ alt_screen = FALSE
    /\ root = NoTree
    /\ state = <<>>
    /\ focus_on_tree = TRUE
    /\ app_exit = "none"
    /\ result = "none"
    /\ writer_calls = <<>>
    /\ ret = "none"

Init ==
    /\ pc = "enable_raw_mode"
    /\ fs \in ValidFileSystems
    /\ NoSession
    /\ NoPipeline

\* `expr?` failing: return Err from run_interactive_mode.
ReturnErr ==
    /\ pc' = "returned"
    /\ ret' = "Err"

\* enable_raw_mode()?
EnableRawMode ==
    /\ pc = "enable_raw_mode"
    /\ \E ok \in BOOLEAN :
         IF ok
         THEN /\ raw_mode' = TRUE
              /\ pc' = "enter_alternate_screen"
              /\ UNCHANGED <<alt_screen, ret>>
         ELSE /\ ReturnErr
              /\ UNCHANGED term_vars
    /\ UNCHANGED <<fs, pipeline_vars, app_vars>>

\* execute!(stdout, EnterAlternateScreen)?
EnterAlternateScreen ==
    /\ pc = "enter_alternate_screen"
    /\ \E ok \in BOOLEAN :
         IF ok
         THEN /\ alt_screen' = TRUE
              /\ pc' = "terminal_new"
              /\ UNCHANGED <<raw_mode, ret>>
         ELSE /\ ReturnErr
              /\ UNCHANGED term_vars
    /\ UNCHANGED <<fs, pipeline_vars, app_vars>>

\* A step `let x = f()?;` that touches none of the modelled state.
Step(here, next) ==
    /\ pc = here
    /\ \E ok \in BOOLEAN :
         IF ok
         THEN pc' = next /\ UNCHANGED ret
         ELSE ReturnErr
    /\ UNCHANGED <<term_vars, fs, pipeline_vars, app_vars>>

\* Terminal::new(backend)?
TerminalNew == Step("terminal_new", "temp_dir_new")

\* tempfile::TempDir::new()?
TempDirNew == Step("temp_dir_new", "download_repository")

\* action.download_repository(&resolved_url).await?
DownloadRepository == Step("download_repository", "extract_zip")

\* action.extract_zip(&zip_content, &temp_dir)?
ExtractZip == Step("extract_zip", "find_repo_root")

\* fs::read_dir(temp_dir.path())? ... .ok_or_else(...)?
FindRepoRoot == Step("find_repo_root", "file_tree_node_new")

\* FileTreeNode::new(repo_root)?, then ListState::default() and
\* state.select(Some(0)), and run_app's `let mut focus_on_tree = true`.
FileTreeNodeNew ==
    /\ pc = "file_tree_node_new"
    /\ \E ok \in BOOLEAN :
         IF ok
         THEN /\ root' = FileTreeNode_new(fs)
              /\ state' = <<0>>
              /\ focus_on_tree' = TRUE
              /\ pc' = "run_app"
              /\ UNCHANGED ret
         ELSE /\ ReturnErr
              /\ UNCHANGED <<root, state, focus_on_tree>>
    /\ UNCHANGED <<term_vars, fs, pipeline_vars, app_exit, result, writer_calls>>

----------------------------------------------------------------------------
(* run_app: one action per iteration of the loop, by the event read.       *)

\* state.selected().unwrap_or(0)
selected_or_0(st) == IF st = <<>> THEN 0 ELSE st[1]

\* KeyCode::Up: current.saturating_sub(1)
key_up(current) == IF current = 0 THEN 0 ELSE current - 1

\* A slip: the cursor is not clamped to the last row.
key_down_unclamped(t, current) == current + 1

\* A slip: the last row is taken to be count_visible_nodes(&root).
key_down_off_by_one(t, current) ==
    LET max_index == count_visible_nodes(t, Root)
    IN  IF current + 1 <= max_index THEN current + 1 ELSE max_index

\* KeyCode::Down: min(current + 1, count_visible_nodes(&root) - 1)
key_down(t, current) ==
    LET max_index == count_visible_nodes(t, Root) - 1
    IN  IF current + 1 <= max_index THEN current + 1 ELSE max_index

\* run_app returns r from the place named: the tree it owns is dropped
\* (focus_on_tree, a plain local, keeps the value it had), and
\* run_interactive_mode goes on to restore the terminal.
AppReturns(r, place) ==
    /\ result' = r
    /\ app_exit' = place
    /\ root' = NoTree
    /\ pc' = "disable_raw_mode"
    /\ UNCHANGED focus_on_tree

\* One iteration of the loop: the draw, the event read, the match.
InLoop ==
    /\ pc = "run_app"
    /\ UNCHANGED <<term_vars, fs, pipeline_vars, ret>>

\* terminal.draw(...)? or event::read()? fails.
LoopError ==
    /\ InLoop
    /\ AppReturns("Err", "error")
    /\ UNCHANGED <<state, writer_calls>>

\* A slip: quitting writes the selection like the OK button does.
KeyQuitWrites ==
    /\ InLoop
    /\ writer_calls' = writer_calls \o write_selected_files(root)
    /\ AppReturns("Ok", "quit")
    /\ UNCHANGED state

\* KeyCode::Char('q') | KeyCode::Esc
KeyQuit ==
    /\ InLoop
    /\ AppReturns("Ok", "quit")
    /\ UNCHANGED <<state, writer_calls>>

\* KeyCode::Enter with the focus on the tree.
KeyEnterTree ==
    /\ InLoop
    /\ focus_on_tree
    /\ root' = IF state # <<>>
               THEN toggle_node_expansion(root, state[1]).root
               ELSE root
    /\ UNCHANGED <<pc, app_exit, state, focus_on_tree, result, writer_calls>>

\* KeyCode::Enter with the focus on the OK button: write_selected_files,
\* whose error is printed and dropped.
KeyEnterOk ==
    /\ InLoop
    /\ ~focus_on_tree
    /\ writer_calls' = writer_calls \o write_selected_files(root)
    /\ AppReturns("Ok", "ok_button")
    /\ UNCHANGED state

\* KeyCode::Tab
KeyTab ==
    /\ InLoop
    /\ focus_on_tree' = ~focus_on_tree
    /\ UNCHANGED <<pc, app_exit, root, state, result, writer_calls>>

\* A slip: the focus_on_tree test is forgotten.
KeySpaceAnyFocus ==
    /\ InLoop
    /\ root' = IF state # <<>>
               THEN toggle_node_selection(root, state[1]).root
               ELSE root
    /\ UNCHANGED <<pc, app_exit, state, focus_on_tree, result, writer_calls>>

\* KeyCode::Char(' ')
KeySpace ==
    /\ InLoop
    /\ root' = IF focus_on_tree /\ state # <<>>
               THEN toggle_node_selection(root, state[1]).root
               ELSE root
    /\ UNCHANGED <<pc, app_exit, state, focus_on_tree, result, writer_calls>>

\* KeyCode::Up
KeyUp ==
    /\ InLoop
    /\ state' = IF focus_on_tree
                THEN <<key_up(selected_or_0(state))>>
                ELSE state
    /\ UNCHANGED <<pc, app_exit, root, focus_on_tree, result, writer_calls>>

\* KeyCode::Down
KeyDown ==
    /\ InLoop
    /\ state' = IF focus_on_tree
                THEN <<key_down(root, selected_or_0(state))>>
                ELSE state
    /\ UNCHANGED <<pc, app_exit, root, focus_on_tree, result, writer_calls>>

\* Any other key, or an event that is not a key.
OtherEvent ==
    /\ InLoop
    /\ UNCHANGED <<pc, app_exit, root, state, focus_on_tree, result, writer_calls>>

----------------------------------------------------------------------------
(* run_interactive_mode after run_app: restoring the terminal.             *)

\* disable_raw_mode()?
DisableRawMode ==
    /\ pc = "disable_raw_mode"
    /\ \E ok \in BOOLEAN :
         IF ok
         THEN /\ raw_mode' = FALSE
              /\ pc' = "leave_alternate_screen"
              /\ UNCHANGED ret
         ELSE /\ ReturnErr
              /\ UNCHANGED raw_mode
    /\ UNCHANGED <<alt_screen, fs, pipeline_vars, app_vars>>

\* execute!(terminal.backend_mut(), LeaveAlternateScreen)?; result
LeaveAlternateScreen ==
    /\ pc = "leave_alternate_screen"
    /\ pc' = "returned"
    /\ \E ok \in BOOLEAN :
         IF ok
         THEN /\ alt_screen' = FALSE
              /\ ret' = result
         ELSE /\ ret' = "Err"
              /\ UNCHANGED alt_screen
    /\ UNCHANGED <<raw_mode, fs, pipeline_vars, app_vars>>

Next ==
    \/ EnableRawMode
    \/ EnterAlternateScreen
    \/ TerminalNew
    \/ TempDirNew
    \/ DownloadRepository
    \/ ExtractZip
    \/ FindRepoRoot
    \/ FileTreeNodeNew
    \/ LoopError
    \/ KeyQuit
    \/ KeyEnterTree
    \/ KeyEnterOk
    \/ KeyTab
    \/ KeySpace
    \/ KeyUp
    \/ KeyDown
    \/ OtherEvent
    \/ DisableRawMode
    \/ LeaveAlternateScreen

Spec == Init /\ [][Next]_vars

TypeOK ==
    /\ pc \in {"enable_raw_mode", "enter_alternate_screen", "terminal_new",
               "temp_dir_new", "download_repository", "extract_zip",
               "find_repo_root", "file_tree_node_new", "run_app",
               "disable_raw_mode", "leave_alternate_screen", "returned",
               "resolve_url", "stage1_resolve", "stage2_download",
               "stage3_temp_dir", "stage3_extract", "stage4_collect",
               "stage5_create", "stage5_loop"}
    /\ raw_mode \in BOOLEAN
    /\ alt_screen \in BOOLEAN
    /\ focus_on_tree \in BOOLEAN
    /\ app_exit \in {"none", "quit", "ok_button", "error"}
    /\ result \in {"none", "Ok", "Err"}
    /\ ret \in {"none", "Ok", "Err"}
    /\ Len(writer_calls) <= 1
    /\ Len(resolved) <= 2
    /\ response \in {"none", "transport_error", "success_status",
                     "error_status"}

----------------------------------------------------------------------------
(* Vocabulary of the properties.                                           *)

\* The event loop is running: the tree exists.
InApp == pc = "run_app"

\* The rows on screen, and the node shown at row i (rows count from 0).
Rows == create_tree_items(root)
RowNode(i) == Rows[i + 1].name
Cursor == state[1]

\* Every node of t in pre-order, whatever is expanded.
RECURSIVE PreOrder(_, _), PreOrderAll(_, _)
PreOrder(t, node) == <<node>> \o PreOrderAll(t, t.children[node])
PreOrderAll(t, kids) ==
    IF kids = <<>> THEN <<>>
    ELSE PreOrder(t, Head(kids)) \o PreOrderAll(t, Tail(kids))

SeqRange(s) == { s[i] : i \in DOMAIN s }

\* node and all its descendants.
Subtree(t, node) == SeqRange(PreOrder(t, node))

Files(t) == { n \in Nodes(t) : ~t.is_dir[n] }
ParentOf(t, n) == CHOOSE p \in Nodes(t) : n \in SeqRange(t.children[p])

Maximum(a, b) == CHOOSE m \in {a, b} : m >= a /\ m >= b
Minimum(a, b) == CHOOSE m \in {a, b} : m <= a /\ m <= b

----------------------------------------------------------------------------
\* C1: in every state of the event loop and for every row index i below
\* count_visible_nodes(root), toggle_node_expansion(root, i) and
\* toggle_node_selection(root, i) stop at the node create_tree_items puts at
\* row i, and change the tree exactly as a toggle applied at that node does.
C1_RenderOrderIsResolutionOrder ==
    InApp =>
      \A i \in 0..(count_visible_nodes(root, Root) - 1) :
        /\ i + 1 \in DOMAIN Rows
        /\ LET e == toggle_node_expansion(root, i)
               s == toggle_node_selection(root, i)
           IN  /\ e.found /\ e.hit = RowNode(i)
               /\ e.root = expansion_at(root, RowNode(i))
               /\ s.found /\ s.hit = RowNode(i)
               /\ s.root = selection_at(root, RowNode(i))

\* The node at the cursor, and no other, has been unselected by a toggle at
\* its row, which lies below a collapsed directory that hides children: row
\* index and pre-order position differ.
C1_Witness ==
    /\ InApp
    /\ focus_on_tree
    /\ Cursor >= 2
    /\ Cursor + 1 \in DOMAIN Rows
    /\ RowNode(Cursor) # PreOrder(root, Root)[Cursor + 1]
    /\ \A n \in Nodes(root) : root.is_selected[n] <=> n # RowNode(Cursor)

\* C2: a selection toggle on a directory's row flips the directory's
\* is_selected and gives the new value to every node of its subtree, at
\* every depth, expanded or not.
C2_SelectionCascadesToSubtree ==
    [][ (KeySpace /\ focus_on_tree /\ Cursor + 1 \in DOMAIN Rows
         /\ root.is_dir[RowNode(Cursor)])
        => \A d \in Subtree(root, RowNode(Cursor)) :
             root'.is_selected[d] = ~root.is_selected[RowNode(Cursor)] ]_vars

\* C3: collect_selected_files(root) is the pre-order of all nodes, expanded
\* or not, cut down to the files whose is_selected is true.
C3_CollectIsSelectedFilesInPreOrder ==
    InApp =>
      collect_selected_files(root, Root)
        = SelectSeq(PreOrder(root, Root),
                    LAMBDA n : ~root.is_dir[n] /\ root.is_selected[n])

\* A selected file under a collapsed directory below the root, an
\* unselected file, and an unselected directory holding a selected file.
C3_Witness ==
    /\ InApp
    /\ \E f \in Files(root) :
         /\ root.is_selected[f]
         /\ ParentOf(root, f) # Root
         /\ ~root.is_expanded[ParentOf(root, f)]
         /\ ~root.is_selected[ParentOf(root, f)]
    /\ \E g \in Files(root) : ~root.is_selected[g]

\* C4: count_visible_nodes(root) is the number of rows create_tree_items
\* produces.
C4_CountVisibleIsRowCount ==
    InApp => count_visible_nodes(root, Root) = Len(Rows)

\* Some rows are shown beside the root and a collapsed directory on screen
\* hides children.
C4_Witness ==
    /\ InApp
    /\ Len(Rows) >= 3
    /\ \E i \in DOMAIN Rows :
         /\ ~root.is_expanded[Rows[i].name]
         /\ root.children[Rows[i].name] # <<>>

C6_TerminalRestoredOnEveryExit ==
    (pc = "returned" /\ raw_mode) => result # "none"

\* C7: with the focus on the tree, Up sets the cursor to max(cursor - 1, 0)
\* and Down to min(cursor + 1, count_visible_nodes(root) - 1), and the
\* cursor they leave is a row of the list.
C7_CursorClamped ==
    [][ ((KeyUp \/ KeyDown) /\ focus_on_tree)
        => /\ KeyUp => state' = <<Maximum(Cursor - 1, 0)>>
           /\ KeyDown =>
                state' = <<Minimum(Cursor + 1,
                                   count_visible_nodes(root, Root) - 1)>>
           /\ state'[1] \in 0..(count_visible_nodes(root', Root) - 1) ]_vars

\* Down has moved the cursor to the last of several rows, where the next
\* Down is clamped.
C7_Witness ==
    /\ InApp
    /\ focus_on_tree
    /\ Len(Rows) >= 2
    /\ Cursor = Len(Rows) - 1

\* C8: toggling the selection of a directory's row twice leaves the
\* directory and all its descendants with the directory's original
\* is_selected.
C8_DirectoryToggleRoundTrip ==
    InApp =>
      \A i \in 0..(Len(Rows) - 1) :
        LET node  == RowNode(i)
            once  == toggle_node_selection(root, i).root
            twice == toggle_node_selection(once, i).root
        IN  root.is_dir[node] =>
              \A d \in Subtree(root, node) :
                twice.is_selected[d] = root.is_selected[node]

\* C9: Enter on the OK button with no file selected calls write_files not
\* at all and run_app returns Ok.
C9_EmptySelectionWritesNothing ==
    [][ (KeyEnterOk /\ \A f \in Files(root) : ~root.is_selected[f])
        => /\ writer_calls' = <<>>
           /\ result' = "Ok"
           /\ pc' # "run_app" ]_vars

\* Enter on the OK button ended a session on a repository that has files,
\* and nothing was written.
C9_Witness ==
    /\ app_exit = "ok_button"
    /\ ~focus_on_tree
    /\ pc = "disable_raw_mode"
    /\ result = "Ok"
    /\ writer_calls = <<>>
    /\ \E k \in 1..fs.n : ~fs.is_dir[k]

\* C10: once 'q' or Esc is handled the loop is over, run_app has returned
\* Ok and write_files is not called, then or later; with the terminal
\* restored run_interactive_mode returns Ok too.
C10_QuitEndsWithoutWriting ==
    app_exit = "quit" =>
      /\ pc \in {"disable_raw_mode", "leave_alternate_screen", "returned"}
      /\ result = "Ok"
      /\ writer_calls = <<>>
      /\ (pc = "returned" /\ ~raw_mode /\ ~alt_screen) => ret = "Ok"

\* A quit key with the focus on the OK button, on a repository with
\* files: the session returned Ok with nothing written.
C10_Witness ==
    /\ app_exit = "quit"
    /\ ~focus_on_tree
    /\ pc = "returned"
    /\ ret = "Ok"
    /\ writer_calls = <<>>
    /\ \E k \in 1..fs.n : ~fs.is_dir[k]


\* C11: toggle_node_expansion at any row changes no is_selected, and at the
\* row of a non-directory it changes nothing: every is_expanded and the
\* count_visible_nodes of every node stay as they were.
C11_ExpansionToggleFrame ==
    InApp =>
      \A i \in 0..(Len(Rows) - 1) :
        LET e == toggle_node_expansion(root, i).root
        IN  /\ e.is_selected = root.is_selected
            /\ ~root.is_dir[RowNode(i)] =>
                 /\ e = root
                 /\ \A n \in Nodes(root) :
                      count_visible_nodes(e, n) = count_visible_nodes(root, n)

\* The cursor is on a file's row, below the root, in a tree where some
\* nodes are selected and some are not.
C11_Witness ==
    /\ InApp
    /\ focus_on_tree
    /\ Cursor + 1 \in DOMAIN Rows
    /\ ~root.is_dir[RowNode(Cursor)]
    /\ \E n \in Nodes(root) : root.is_selected[n]
    /\ \E n \in Nodes(root) : ~root.is_selected[n]

\* A root whose children are all files.
Flat(t) == \A n \in Nodes(t) : t.is_dir[n] <=> n = Root

\* The files of a flat tree still selected, in sibling (path) order.
RemainingFiles(t) ==
    SelectSeq([i \in 1..(Cardinality(Nodes(t)) - 1) |-> i + 1],
              LAMBDA f : t.is_selected[f])

\* C12 as claimed: in any flat tree, Enter on the OK button with exactly one
\* file unselected calls write_files once, with the other files in order.
C12_FlatTreeWritesRemaining ==
    [][ (KeyEnterOk /\ Flat(root)
         /\ Cardinality({f \in Files(root) : ~root.is_selected[f]}) = 1)
        => writer_calls' = <<RemainingFiles(root)>> ]_vars

\* C12 as amended: the same, for a flat tree of at least two files.
C12_FlatTreeOfSeveralWritesRemaining ==
    [][ (KeyEnterOk /\ Flat(root) /\ Cardinality(Files(root)) >= 2
         /\ Cardinality({f \in Files(root) : ~root.is_selected[f]}) = 1)
        => writer_calls' = <<RemainingFiles(root)>> ]_vars

\* Three files, the middle one unselected at the confirm: write_files got
\* the first and the last.
C12_Witness ==
    /\ app_exit = "ok_button"
    /\ fs.n = 4
    /\ \A k \in 2..4 : ~fs.is_dir[k]
    /\ writer_calls = << <<2, 4>> >>

\* C18: with the focus on the OK button, Space, Up and Down leave the
\* cursor, the focus and the whole tree as they are, and the loop goes on.
C18_NoOpsOnOkButton ==
    [][ ((KeySpace \/ KeyUp \/ KeyDown) /\ ~focus_on_tree)
        => /\ UNCHANGED <<state, focus_on_tree, root>>
           /\ pc' = "run_app" ]_vars

\* The focus is on the OK button with the cursor below row 0 on a selected
\* node and some other node unselected, so each of the three keys would
\* change something with the focus on the tree.
C18_Witness ==
    /\ InApp
    /\ ~focus_on_tree
    /\ Cursor >= 1
    /\ Cursor + 2 \in DOMAIN Rows
    /\ root.is_selected[RowNode(Cursor)]
    /\ \E n \in Nodes(root) : ~root.is_selected[n]

\* C19: while the loop runs the cursor is Some(i) with
\* 0 <= i < count_visible_nodes(root), count_visible_nodes(root) >= 1, and
\* both toggles find a node at the cursor.
C19_CursorIsAValidRow ==
    InApp =>
      /\ state # <<>>
      /\ count_visible_nodes(root, Root) >= 1
      /\ Cursor \in 0..(count_visible_nodes(root, Root) - 1)
      /\ toggle_node_expansion(root, Cursor).found
      /\ toggle_node_selection(root, Cursor).found

\* The cursor is on a directory that was expanded (a child of it was
\* unselected on its own) and is collapsed again, with rows after it.
C19_Witness ==
    /\ InApp
    /\ Cursor >= 1
    /\ Cursor + 2 \in DOMAIN Rows
    /\ root.is_dir[RowNode(Cursor)]
    /\ ~root.is_expanded[RowNode(Cursor)]
    /\ root.is_selected[RowNode(Cursor)]
    /\ \E c \in SeqRange(root.children[RowNode(Cursor)]) : ~root.is_selected[c]

\* C20: a file is collected exactly when its own is_selected is true, and
\* flipping the is_selected of any directory, leaving the files' flags as
\* they are, does not change what collect_selected_files returns.
C20_CollectIgnoresDirectoryFlags ==
    InApp =>
      /\ \A f \in Files(root) :
           f \in SeqRange(collect_selected_files(root, Root))
             <=> root.is_selected[f]
      /\ \A d \in Nodes(root) \ Files(root) :
           collect_selected_files(
               [root EXCEPT !.is_selected[d] = ~root.is_selected[d]], Root)
             = collect_selected_files(root, Root)

\* A selected file in an unselected directory, and an unselected file all
\* of whose ancestors are selected.
C20_Witness ==
    /\ InApp
    /\ \E f \in Files(root) :
         root.is_selected[f] /\ ~root.is_selected[ParentOf(root, f)]
    /\ \E g \in Files(root) :
         /\ ~root.is_selected[g]
         /\ \A a \in Nodes(root) :
              (a # g /\ g \in Subtree(root, a)) => root.is_selected[a]


----------------------------------------------------------------------------
(* resolve_url (src/src/action.rs), on strings kept as sequences of        *)
(* characters.                                                             *)

\* The characters of a URL: those of "/" and ".git" ("g", "i" and "t" also
\* stand for any other character when not part of a ".git").
Chars == {"/", ".", "g", "i", "t"}

Urls == UNION { [1..n -> Chars] : n \in 0..MaxUrlLen }

DotGit == <<".", "g", "i", "t">>
Slash == <<"/">>

\* str::ends_with
ends_with(s, pat) ==
    /\ Len(s) >= Len(pat)
    /\ SubSeq(s, Len(s) - Len(pat) + 1, Len(s)) = pat

\* str::trim_end_matches: every suffix that matches the pattern is removed,
\* repeatedly.
RECURSIVE trim_end_matches(_, _)
trim_end_matches(s, pat) ==
    IF ends_with(s, pat)
    THEN trim_end_matches(SubSeq(s, 1, Len(s) - Len(pat)), pat)
    ELSE s

\* str::strip_suffix, or the string itself: at most one match is removed.
strip_one(s, pat) ==
    IF ends_with(s, pat) THEN SubSeq(s, 1, Len(s) - Len(pat)) ELSE s

\* A slip: one match of each pattern is removed, not all.
resolve_url_strip_one(u) == strip_one(strip_one(u, Slash), DotGit)

\* A slip: ".git" is trimmed before the slashes.
resolve_url_git_first(u) ==
    trim_end_matches(trim_end_matches(u, DotGit), Slash)

resolve_url(u) == trim_end_matches(trim_end_matches(u, Slash), DotGit)

\* Nothing of the interactive session runs while resolve_url is exercised.
InitUrl ==
    /\ pc = "resolve_url"
    /\ fs = [n |-> 1, parent |-> <<>>, is_dir |-> <<TRUE>>]
    /\ NoSession
    /\ url \in Urls
    /\ resolved = <<>>
    /\ response = "none"
    /\ binary = {}
    /\ files = <<>>
    /\ output = <<>>

\* let resolved_url = resolve_url(&self.url);
ResolveUrl ==
    /\ pc = "resolve_url"
    /\ resolved = <<>>
    /\ resolved' = <<resolve_url(url)>>
    /\ UNCHANGED <<session_vars, url, response, binary, files, output>>

\* resolve_url applied to a URL it returned.
ResolveAgain ==
    /\ pc = "resolve_url"
    /\ Len(resolved) = 1
    /\ resolved' = Append(resolved, resolve_url(resolved[1]))
    /\ UNCHANGED <<session_vars, url, response, binary, files, output>>

NextUrl ==
    \/ ResolveUrl
    \/ ResolveAgain

SpecUrl == InitUrl /\ [][NextUrl]_vars

----------------------------------------------------------------------------
\* s repeated k times.
RECURSIVE Repeat(_, _)
Repeat(s, k) == IF k = 0 THEN <<>> ELSE s \o Repeat(s, k - 1)

\* C13: resolving a resolved URL gives it back.
C13_ResolveUrlIdempotent ==
    Len(resolved) = 2 => resolved[2] = resolved[1]

\* C14 as claimed: the result is the URL less at most one trailing "/" and
\* at most one trailing ".git", in either order.
C14_StripsAtMostOneOfEach ==
    Len(resolved) >= 1 =>
      \E g \in {<<>>, DotGit}, sl \in {<<>>, Slash} :
        \/ url = resolved[1] \o g \o sl
        \/ url = resolved[1] \o sl \o g

\* C14 as amended: the result is the URL less all its trailing "/" and
\* then less all the trailing ".git" of what is left, and nothing else.
C14_StripsAllSlashesThenAllDotGits ==
    Len(resolved) >= 1 =>
      \E k, m \in 0..Len(url) :
        /\ url = resolved[1] \o Repeat(DotGit, k) \o Repeat(Slash, m)
        /\ ~ends_with(resolved[1] \o Repeat(DotGit, k), Slash)
        /\ ~ends_with(resolved[1], DotGit)

\* A URL that lost more than one "/" and one ".git" can account for.
C14_Witness ==
    /\ Len(resolved) >= 1
    /\ Len(url) - Len(resolved[1]) > Len(DotGit) + Len(Slash)

\* C15: a URL that is b, b.git, b/ or b.git/ for a b ending in neither "/"
\* nor ".git" resolves to b.
C15_FourFormsResolveToBase ==
    Len(resolved) >= 1 =>
      \A sfx \in {<<>>, DotGit, Slash, DotGit \o Slash} :
        ends_with(url, sfx) =>
          LET b == SubSeq(url, 1, Len(url) - Len(sfx))
          IN  (~ends_with(b, Slash) /\ ~ends_with(b, DotGit))
                => resolved[1] = b

\* b.git/ for a b that is not empty has been resolved to b.
C15_Witness ==
    /\ Len(resolved) >= 1
    /\ ends_with(url, DotGit \o Slash)
    /\ Len(url) > Len(DotGit \o Slash)
    /\ ~ends_with(resolved[1], Slash)
    /\ resolved[1] \o DotGit \o Slash = url


----------------------------------------------------------------------------
(* AmalgamationAction::execute and write_files (src/src/action.rs).        *)
(* fs is what the downloaded archive unpacks to.                           *)

\* The URLs of test_url_resolution, for the one-character base "t".
ExecuteUrls ==
    { <<"t">>, <<"t">> \o DotGit, <<"t">> \o Slash, <<"t">> \o DotGit \o Slash }

\* path.is_file()
is_file(f, path) == path \in 1..f.n /\ ~f.is_dir[path]

\* The path of an entry, as its components from the top-level directory.
RECURSIVE PathOf(_, _)
PathOf(f, k) == IF k = Root THEN <<Root>> ELSE Append(PathOf(f, f.parent[k]), k)

\* Ord for PathBuf: component by component, a proper prefix first.
RECURSIVE components_less(_, _)
components_less(a, b) ==
    IF b = <<>> THEN FALSE
    ELSE IF a = <<>> THEN TRUE
    ELSE IF Head(a) # Head(b) THEN Head(a) < Head(b)
    ELSE components_less(Tail(a), Tail(b))

\* collect_all_files(&temp_dir), then files.sort().
collect_all_files(f) ==
    SortSeq(SetToSeq({ k \in 1..f.n : is_file(f, k) }),
            LAMBDA a, b : components_less(PathOf(f, a), PathOf(f, b)))

\* writeln!(output_file, "// File: {}", file_path.display())
HeaderLine(path) == [line |-> "header", path |-> path]

\* writeln!(output_file, "{}\n", content)
ContentLines(path) == [line |-> "content", path |-> path]

\* One pass of write_files's loop body that returns no error: what the
\* output file holds after it.
write_file(f, bin, out, path) ==
    IF ~is_file(f, path) THEN out
    ELSE LET headed == Append(out, HeaderLine(path))
         IN  IF path \notin bin
             THEN Append(headed, ContentLines(path))
             ELSE headed

InitExecute ==
    /\ pc = "stage1_resolve"
    /\ fs \in ValidFileSystems
    /\ NoSession
    /\ url \in ExecuteUrls
    /\ resolved = <<>>
    /\ response = "none"
    /\ binary \in SUBSET { k \in 1..fs.n : is_file(fs, k) }
    /\ files = <<>>
    /\ output = <<>>

execute_frame == <<raw_mode, alt_screen, fs, root, state, focus_on_tree,
                   app_exit, result, writer_calls, url, binary>>

\* Stage 1: let resolved_url = resolve_url(&self.url);
Stage1Resolve ==
    /\ pc = "stage1_resolve"
    /\ resolved' = <<resolve_url(url)>>
    /\ pc' = "stage2_download"
    /\ UNCHANGED <<execute_frame, ret, response, files, output>>

\* Stage 2: self.download_repository(&resolved_url).await?  send() or
\* bytes() fails on a transport error only; the status is not looked at.
Stage2Download ==
    /\ pc = "stage2_download"
    /\ \E outcome \in {"transport_error", "success_status", "error_status"} :
         /\ response' = outcome
         /\ IF outcome = "transport_error"
            THEN ReturnErr
            ELSE pc' = "stage3_temp_dir" /\ UNCHANGED ret
    /\ UNCHANGED <<execute_frame, resolved, files, output>>

\* Stage 3: TempDir::new()?
Stage3TempDir == Step("stage3_temp_dir", "stage3_extract")

\* Stage 3: self.extract_zip(&zip_content, &temp_dir)?
Stage3Extract == Step("stage3_extract", "stage4_collect")

\* Stage 4: collect_all_files(&temp_dir)?; files.sort();
Stage4Collect ==
    /\ pc = "stage4_collect"
    /\ files' = collect_all_files(fs)
    /\ pc' = "stage5_create"
    /\ UNCHANGED <<execute_frame, ret, resolved, response, output>>

\* Stage 5, write_files: fs::create_dir_all(parent)?; File::create(..)?
Stage5Create ==
    /\ pc = "stage5_create"
    /\ \E ok \in BOOLEAN :
         IF ok
         THEN pc' = "stage5_loop" /\ UNCHANGED ret
         ELSE ReturnErr
    /\ output' = <<>>
    /\ UNCHANGED <<execute_frame, resolved, response, files>>

\* Stage 5, write_files: one iteration of `for file_path in files`; a
\* writeln! that fails returns the error.
Stage5WriteFile ==
    /\ pc = "stage5_loop"
    /\ files # <<>>
    /\ \E ok \in BOOLEAN :
         IF ok
         THEN /\ output' = write_file(fs, binary, output, Head(files))
              /\ files' = Tail(files)
              /\ UNCHANGED <<pc, ret>>
         ELSE /\ ReturnErr
              /\ UNCHANGED <<files, output>>
    /\ UNCHANGED <<execute_frame, resolved, response>>

\* Stage 5 and 6: the loop is over, write_files and execute return Ok(()).
Stage6Success ==
    /\ pc = "stage5_loop"
    /\ files = <<>>
    /\ pc' = "returned"
    /\ ret' = "Ok"
    /\ UNCHANGED <<execute_frame, resolved, response, files, output>>

NextExecute ==
    \/ Stage1Resolve
    \/ Stage2Download
    \/ Stage3TempDir
    \/ Stage3Extract
    \/ Stage4Collect
    \/ Stage5Create
    \/ Stage5WriteFile
    \/ Stage6Success

SpecExecute == InitExecute /\ [][NextExecute]_vars

----------------------------------------------------------------------------
\* The header and content of each file of a list, in order.
RECURSIVE Blocks(_)
Blocks(list) ==
    IF list = <<>> THEN <<>>
    ELSE <<HeaderLine(Head(list)), ContentLines(Head(list))>>
           \o Blocks(Tail(list))

\* C16: when write_files has returned Ok the output holds the header and
\* content of every file that decodes as text, in the order of the list,
\* and no line, header or content, of a file that does not.
C16_UndecodableFileLeavesNoTrace ==
    (pc = "returned" /\ ret = "Ok") =>
      output = Blocks(SelectSeq(collect_all_files(fs),
                                LAMBDA k : k \notin binary))

\* C17: once the GET has met a transport error or a status that is not a
\* success, execute has returned Err: no extraction, collection or writing
\* follows.
C17_FetchFailsOnBadStatus ==
    response \in {"transport_error", "error_status"} =>
      /\ pc = "returned"
      /\ ret = "Err"
      /\ files = <<>>
      /\ output = <<>>

====
